---------------------------- MODULE Spec2Model ----------------------------
(***************************************************************************)
(* State-machine model of GoogleAIProvider (the JSON-streaming backend     *)
(* adapter) together with the transport primitive it drives and the        *)
(* caller's StreamCallbacks sink.                                          *)
(*                                                                         *)
(* The adapter's fields are lastContentLength, processedChunks and         *)
(* currentResponseId.  null is written "" : the empty string is falsy in   *)
(* the source and is therefore never stored in currentResponseId, so ""    *)
(* is free to stand for null.  An absent / empty JSON field is "" too.     *)
(*                                                                         *)
(* The module also holds the AddDocumentsDialog component and its          *)
(* handleConfirm handler, which share no state with the provider.          *)
(***************************************************************************)
EXTENDS Integers, Sequences, FiniteSets, TLC

VARIABLES
    apiKey,             \* the configured credential, "" when none
    pc,                 \* position of the chatStream call
    conn,               \* transport connection: none, connecting, open,
                        \* closed (stream ended), failed (error reported),
                        \* cancelled (stopConnection), destroyed
    lastContentLength,  \* GoogleAIProvider.lastContentLength
    processedChunks,    \* GoogleAIProvider.processedChunks
    currentResponseId,  \* GoogleAIProvider.currentResponseId
    log,                \* callbacks delivered to the cb of the current call
    delivered,          \* chunks handed to onData in the current call
    startCount,         \* startConnection invocations of the current call
    checkResult,        \* value returned by the last checkConnection
    nChunks,            \* chunks delivered so far in the run
    messages,           \* the messages argument of chatStream
    body,               \* contents of the request body last built
    cancels,            \* cancelStream calls since the current call began:
                        \* sink length, conn and pc at the time of each
    prevChunks,         \* dedup set discarded by the last chatStream reset
    files,              \* AddDocumentsDialog: ids of the listed files
    selected,           \* AddDocumentsDialog: the selection, in insertion order
    progress,           \* AddDocumentsDialog: progress
    adding,             \* AddDocumentsDialog: adding
    progressMessage,    \* AddDocumentsDialog: progressMessage
    dpc,                \* position of the handleConfirm call
    selectedIds,        \* handleConfirm: Array.from(selected)
    idx,                \* handleConfirm: the loop index i
    calls,              \* ids handed to addDocumentToKnowledgeBase by the
                        \* last handleConfirm, in call order
    toasts,             \* toast calls of the last handleConfirm
    onSuccessCalls,     \* onSuccess() calls of the last handleConfirm
    closeCalls,         \* onOpenChange(false) calls of the last handleConfirm
    addFailed,          \* an addDocumentToKnowledgeBase call of the last
                        \* handleConfirm rejected
    outcome             \* how the last handleConfirm went

providerVars == <<apiKey, pc, conn, lastContentLength, processedChunks,
                  currentResponseId, log, delivered, startCount, checkResult,
                  nChunks, messages, body, cancels, prevChunks>>

dialogVars == <<files, selected, progress, adding, progressMessage, dpc,
                selectedIds, idx, calls, toasts, onSuccessCalls, closeCalls,
                addFailed, outcome>>

vars == <<providerVars, dialogVars>>

adapterState == <<lastContentLength, processedChunks, currentResponseId>>

---------------------------------------------------------------------------
(* Bounds *)

MaxChunks == 2
MaxCancels == 2
MaxMessages == 3
MaxSelected == 2

---------------------------------------------------------------------------
(* Inputs *)

Keys == {"", "k"}
ResponseIds == {"", "r1", "r2"}
Texts == {"", "Hel", "lo", "ab"}
FinishReasons == {"", "STOP"}
BlockReasons == {"", "SAFETY"}

\* candidates[0].content.parts : the text of each part, "" for a part
\* without text.  No parts, one part of each kind, and a two-part list.
PartsLists == {<<>>} \cup {<<t>> : t \in Texts} \cup {<<"Hel", "lo">>}

\* A raw chunk.  parsed = FALSE is a chunk on which JSON.parse throws (or
\* yields null, so that the first property access throws inside the try).
\* The caller's callbacks are taken not to throw.
\* hasCandidate = FALSE is a payload without a non-empty candidates array.
MalformedChunk ==
    [parsed |-> FALSE, responseId |-> "", hasCandidate |-> FALSE,
     parts |-> <<>>, finishReason |-> "", blockReason |-> ""]

BareChunks ==
    [parsed : {TRUE}, responseId : ResponseIds, hasCandidate : {FALSE},
     parts : {<<>>}, finishReason : {""}, blockReason : BlockReasons]

CandidateChunks ==
    [parsed : {TRUE}, responseId : ResponseIds, hasCandidate : {TRUE},
     parts : PartsLists, finishReason : FinishReasons, blockReason : {""}]

StopAndBlockChunk ==
    [parsed |-> TRUE, responseId |-> "", hasCandidate |-> TRUE,
     parts |-> <<>>, finishReason |-> "STOP", blockReason |-> "SAFETY"]

Chunks == {MalformedChunk, StopAndBlockChunk} \cup BareChunks \cup CandidateChunks

---------------------------------------------------------------------------
(* The caller's sink: one record per callback invocation.  key and chunk   *)
(* record which fingerprint / which delivered chunk caused the callback;   *)
(* they are "" / 0 for callbacks not caused by a chunk.                    *)

Event(ev, arg, key, chunk) == [ev |-> ev, arg |-> arg, key |-> key, chunk |-> chunk]

OnStartEv == Event("start", "", "", 0)
OnTokenEv(text, key, i) == Event("token", text, key, i)
OnCompleteEv(key, i) == Event("complete", "", key, i)
OnErrorEv(err, key, i) == Event("error", err, key, i)

NoKeyError == "NO_KEY"
ParseError == "SyntaxError"
TransportError == "net"
BlockedError(reason) == "Content blocked: " \o reason

---------------------------------------------------------------------------
(* Request construction *)

Roles == {"user", "assistant", "system"}
Contents == {"Hi", "Yo"}
Messages == [role : Roles, content : Contents]
MessageLists == UNION {[1..n -> Messages] : n \in 0..MaxMessages}

\* the history of the end-to-end scenarios
ScenarioMessages == <<[role |-> "user", content |-> "Hi"]>>

\* variant: only assistant turns are mapped to 'model'
VendorRole_SystemAsUser(role) == IF role = "assistant" THEN "model" ELSE "user"

\* role: m.role === 'user' ? 'user' : 'model'
VendorRole(role) == IF role = "user" THEN "user" ELSE "model"

\* contents: messages.map(m => ({ role, parts: [{ text: m.content }] }))
RequestContents(msgs) ==
    [i \in 1..Len(msgs) |->
        [role |-> VendorRole(msgs[i].role),
         parts |-> <<[text |-> msgs[i].content]>>]]

---------------------------------------------------------------------------
(* Credential resolution (BaseProvider.getApiKey) *)

GetApiKey == apiKey

---------------------------------------------------------------------------
(* Pure parts of the onData handler *)

\* `${this.currentResponseId}`
IdString(id) == IF id = "" THEN "null" ELSE id

\* parsedData.candidates?.[0]?.content?.parts?.[0]?.text?.length || 0
FirstTextLength(c) ==
    IF c.hasCandidate /\ Len(c.parts) > 0 THEN Len(c.parts[1]) ELSE 0

\* the response-identity step: a truthy responseId is adopted
IdAfter(cur, c) == IF c.responseId # "" THEN c.responseId ELSE cur

\* variant: an identity change is never treated as a new response
IsNewResponse_NoReset(cur, c) == FALSE

\* ... and the state is reset when a tracked identity differs from it
IsNewResponse(cur, c) ==
    /\ c.responseId # ""
    /\ cur # ""
    /\ cur # c.responseId

\* const chunkKey = `${this.currentResponseId}-${...length || 0}`
ChunkKey(cur, c) == IdString(IdAfter(cur, c)) \o "-" \o ToString(FirstTextLength(c))

SetAfterIdStep(set, cur, c) == IF IsNewResponse(cur, c) THEN {} ELSE set

\* if (this.processedChunks.has(chunkKey)) return;
IsDuplicate(set, cur, c) == ChunkKey(cur, c) \in SetAfterIdStep(set, cur, c)

\* for (const part of candidate.content.parts) if (part.text) cb.onToken(part.text)
RECURSIVE TokenEvents(_, _, _)
TokenEvents(parts, key, i) ==
    IF parts = <<>> THEN <<>>
    ELSE (IF Head(parts) # "" /\ Len(Head(parts)) > 0
             THEN <<OnTokenEv(Head(parts), key, i)>>
             ELSE <<>>)
         \o TokenEvents(Tail(parts), key, i)

\* if (candidate.finishReason === 'STOP') cb.onComplete()
CompleteEvents(c, key, i) ==
    IF c.hasCandidate /\ c.finishReason = "STOP"
        THEN <<OnCompleteEv(key, i)>> ELSE <<>>

\* if (parsedData.promptFeedback?.blockReason) cb.onError(new Error(...))
BlockEvents(c, key, i) ==
    IF c.blockReason # ""
        THEN <<OnErrorEv(BlockedError(c.blockReason), key, i)>> ELSE <<>>

\* variant: the finishReason check runs before the parts loop
ChunkEvents_CompleteFirst(set, cur, c, i) ==
    IF ~c.parsed THEN <<OnErrorEv(ParseError, "", i)>>
    ELSE IF IsDuplicate(set, cur, c) THEN <<>>
    ELSE LET key == ChunkKey(cur, c) IN
         CompleteEvents(c, key, i)
         \o (IF c.hasCandidate THEN TokenEvents(c.parts, key, i) ELSE <<>>)
         \o BlockEvents(c, key, i)

\* every callback one raw chunk causes, in the order the handler makes them
ChunkEvents(set, cur, c, i) ==
    IF ~c.parsed THEN <<OnErrorEv(ParseError, "", i)>>
    ELSE IF IsDuplicate(set, cur, c) THEN <<>>
    ELSE LET key == ChunkKey(cur, c) IN
         (IF c.hasCandidate THEN TokenEvents(c.parts, key, i) ELSE <<>>)
         \o CompleteEvents(c, key, i)
         \o BlockEvents(c, key, i)

---------------------------------------------------------------------------
(* AddDocumentsDialog: the component state and its handleConfirm handler.  *)
(* The selection is a JavaScript Set, which iterates in insertion order;   *)
(* it is kept as a duplicate-free sequence.  A file's display name is its  *)
(* id.  toast calls are recorded by their kind.                            *)

\* files the loader can list; c1 is a chat attachment
AllFiles == {"d1", "d2", "c1"}

\* DisplayFile.type
FileType(id) == IF id = "c1" THEN "chat" ELSE "document"

\* values the ingestion service passes to onProgress
Percentages == {0, 45, 100}
ProgressMessages == {"", "indexing"}

\* how the onSuccess prop behaves when the handler reaches it
OnSuccessKinds == {"absent", "returns", "throws"}

\* `正在处理: ${file.name}`
ProcessingMessage(id) == "processing: " \o id

Min(a, b) == IF a < b THEN a ELSE b

\* Math.round of the non-negative rational a / b: halves round up
Round(a, b) == (2 * a + b) \div (2 * b)

\* variant: the value is not capped
ProgressValue_NoCap(i, n, p) == Round(100 * i + p, n)

\* Math.min(99, Math.round((i / n) * 100 + p / n)); for n <= 4 the floating
\* point sum rounds as the exact rational (100 i + p) / n does
ProgressValue(i, n, p) == Min(99, Round(100 * i + p, n))

\* the initial useState values
DialogInit ==
    /\ files = AllFiles
    /\ selected = <<>>
    /\ progress = 0
    /\ adding = FALSE
    /\ progressMessage = ""
    /\ dpc = "idle"
    /\ selectedIds = <<>>
    /\ idx = 0
    /\ calls = <<>>
    /\ toasts = <<>>
    /\ onSuccessCalls = 0
    /\ closeCalls = 0
    /\ addFailed = FALSE
    /\ outcome = "none"

InSeq(x, s) == \E k \in DOMAIN s : s[k] = x

\* toggle(id): a checkbox of the list, which is shown only while not adding
Toggle(id) ==
    /\ dpc = "idle"
    /\ ~adding
    /\ id \in files
    /\ IF InSeq(id, selected)
         THEN selected' = SelectSeq(selected, LAMBDA x : x # id)
         ELSE /\ Len(selected) < MaxSelected
              /\ selected' = Append(selected, id)
    /\ UNCHANGED <<files, progress, adding, progressMessage, dpc,
                   selectedIds, idx, calls, toasts, onSuccessCalls,
                   closeCalls, addFailed, outcome>>
    /\ UNCHANGED providerVars

\* the useEffect that reloads the list when the dialog is opened again or
\* the knowledge base changes; the selection is kept.  A running
\* handleConfirm reads the files of the render it was started from, so a
\* reload matters to it only between runs.
LoadAllFiles ==
    /\ dpc = "idle"
    /\ files' \in SUBSET AllFiles
    /\ UNCHANGED <<selected, progress, adding, progressMessage, dpc,
                   selectedIds, idx, calls, toasts, onSuccessCalls,
                   closeCalls, addFailed, outcome>>
    /\ UNCHANGED providerVars

\* the for loop from index i up to the next await or to its end
RECURSIVE RunLoop(_, _, _, _, _)
RunLoop(ids, fs, i, msg, ts) ==
    IF i >= Len(ids)
      THEN [i |-> i, msg |-> msg, toasts |-> ts, awaiting |-> FALSE]
    ELSE IF ids[i + 1] \notin fs
      THEN RunLoop(ids, fs, i + 1, msg, ts)
    ELSE IF FileType(ids[i + 1]) = "chat"
      THEN RunLoop(ids, fs, i + 1, ProcessingMessage(ids[i + 1]),
                   Append(ts, "warning"))
    ELSE [i |-> i, msg |-> ProcessingMessage(ids[i + 1]), toasts |-> ts,
          awaiting |-> TRUE]

\* the finally block
Finally ==
    /\ adding' = FALSE
    /\ progress' = 0
    /\ progressMessage' = ""
    /\ selected' = <<>>

\* handleConfirm from loop index i to its next await: either the next
\* document is handed to addDocumentToKnowledgeBase, or the loop is over and
\* the handler runs its success tail (with the catch block if onSuccess
\* throws) and the finally block
Proceed(ids, i, ts, cs, cb) ==
    LET r == RunLoop(ids, files, i, progressMessage, ts) IN
    /\ idx' = r.i
    /\ IF r.awaiting
         THEN /\ dpc' = "awaitAdd"
              /\ adding' = TRUE
              /\ progressMessage' = r.msg
              /\ toasts' = r.toasts
              /\ calls' = Append(cs, ids[r.i + 1])
              /\ onSuccessCalls' = 0
              /\ closeCalls' = 0
              /\ outcome' = "running"
              /\ UNCHANGED <<progress, selected>>
         ELSE /\ dpc' = "idle"
              /\ calls' = cs
              /\ toasts' = IF cb = "throws"
                             THEN r.toasts \o <<"success", "error">>
                             ELSE Append(r.toasts, "success")
              /\ onSuccessCalls' = IF cb = "absent" THEN 0 ELSE 1
              /\ closeCalls' = IF cb = "throws" THEN 0 ELSE 1
              /\ outcome' = IF cb = "throws" THEN "error" ELSE "done"
              /\ Finally

\* handleConfirm up to its first await
HandleConfirm ==
    /\ dpc = "idle"
    /\ ~adding
    /\ addFailed' = FALSE
    /\ IF selected = <<>>
         THEN /\ toasts' = <<"error">>
              /\ outcome' = "empty"
              /\ selectedIds' = <<>>
              /\ idx' = 0
              /\ calls' = <<>>
              /\ onSuccessCalls' = 0
              /\ closeCalls' = 0
              /\ UNCHANGED <<selected, progress, adding, progressMessage,
                             dpc>>
         ELSE /\ selectedIds' = selected
              /\ \E cb \in OnSuccessKinds :
                    Proceed(selected, 0, <<>>, <<>>, cb)
    /\ UNCHANGED files
    /\ UNCHANGED providerVars

\* the onProgress callback of the call in flight
OnProgress(p, msg) ==
    /\ dpc = "awaitAdd"
    /\ progress' = ProgressValue(idx, Len(selectedIds), p)
    /\ progressMessage' = msg
    /\ UNCHANGED <<files, selected, adding, dpc, selectedIds, idx, calls,
                   toasts, onSuccessCalls, closeCalls, addFailed, outcome>>
    /\ UNCHANGED providerVars

\* the awaited addDocumentToKnowledgeBase resolves: the loop goes on
AddResolved ==
    /\ dpc = "awaitAdd"
    /\ \E cb \in OnSuccessKinds :
          Proceed(selectedIds, idx + 1, toasts, calls, cb)
    /\ UNCHANGED <<files, selectedIds, addFailed>>
    /\ UNCHANGED providerVars

\* the awaited addDocumentToKnowledgeBase rejects: catch, then finally
AddRejected ==
    /\ dpc = "awaitAdd"
    /\ dpc' = "idle"
    /\ addFailed' = TRUE
    /\ toasts' = Append(toasts, "error")
    /\ outcome' = "error"
    /\ Finally
    /\ UNCHANGED <<files, selectedIds, idx, calls, onSuccessCalls,
                   closeCalls>>
    /\ UNCHANGED providerVars

---------------------------------------------------------------------------
(* Initial state: a freshly constructed provider and a freshly mounted     *)
(* dialog                                                                  *)

Init ==
    /\ apiKey \in Keys
    /\ pc = "idle"
    /\ conn = "none"
    /\ lastContentLength = 0
    /\ processedChunks = {}
    /\ currentResponseId = ""
    /\ log = <<>>
    /\ delivered = <<>>
    /\ startCount = 0
    /\ checkResult = [ok |-> FALSE, reason |-> "NONE"]
    /\ nChunks = 0
    /\ messages = ScenarioMessages
    /\ body = <<>>
    /\ cancels = <<>>
    /\ prevChunks = {}
    /\ DialogInit

---------------------------------------------------------------------------
(* checkConnection *)

\* variant: the missing-key branch is dropped
CheckConnection_AlwaysOk ==
    /\ checkResult' = [ok |-> TRUE, reason |-> ""]
    /\ UNCHANGED <<messages, body, cancels, prevChunks>>
    /\ UNCHANGED <<apiKey, pc, conn, lastContentLength, processedChunks,
                   currentResponseId, log, delivered, startCount, nChunks>>
    /\ UNCHANGED dialogVars

CheckConnection ==
    /\ checkResult' = IF GetApiKey = ""
                          THEN [ok |-> FALSE, reason |-> "NO_KEY"]
                          ELSE [ok |-> TRUE, reason |-> ""]
    /\ UNCHANGED <<messages, body, cancels, prevChunks>>
    /\ UNCHANGED <<apiKey, pc, conn, lastContentLength, processedChunks,
                   currentResponseId, log, delivered, startCount, nChunks>>
    /\ UNCHANGED dialogVars

---------------------------------------------------------------------------
(* chatStream *)

\* the call up to `await this.getApiKey(model)`; one exchange at a time
ChatStreamCall ==
    /\ pc \in {"idle", "done"}
    /\ conn \in {"none", "closed", "failed", "cancelled"}
    /\ pc' = "getKey"
    /\ log' = <<>>
    /\ delivered' = <<>>
    /\ startCount' = 0
    /\ cancels' = <<>>
    /\ UNCHANGED <<messages, body, prevChunks>>
    /\ UNCHANGED <<apiKey, conn, lastContentLength, processedChunks,
                   currentResponseId, checkResult, nChunks>>
    /\ UNCHANGED dialogVars

\* variant: the per-exchange state is not reset before startConnection
ChatStreamResolved_NoReset ==
    /\ pc = "getKey"
    /\ IF GetApiKey = ""
         THEN /\ log' = Append(log, OnErrorEv(NoKeyError, "", 0))
              /\ pc' = "done"
              /\ UNCHANGED <<conn, startCount, body>>
         ELSE /\ body' = RequestContents(messages)
              /\ startCount' = startCount + 1
              /\ conn' = "connecting"
              /\ pc' = "awaitStart"
              /\ UNCHANGED log
    /\ prevChunks' = processedChunks
    /\ UNCHANGED <<lastContentLength, processedChunks, currentResponseId>>
    /\ UNCHANGED <<messages, cancels>>
    /\ UNCHANGED <<apiKey, delivered, checkResult, nChunks>>
    /\ UNCHANGED dialogVars

\* variant: the `return` after the NO_KEY error is missing
ChatStreamResolved_NoReturn ==
    /\ pc = "getKey"
    /\ log' = IF GetApiKey = ""
                 THEN Append(log, OnErrorEv(NoKeyError, "", 0)) ELSE log
    /\ lastContentLength' = 0
    /\ processedChunks' = {}
    /\ currentResponseId' = ""
    /\ startCount' = startCount + 1
    /\ conn' = "connecting"
    /\ pc' = "awaitStart"
    /\ body' = RequestContents(messages)
    /\ prevChunks' = processedChunks
    /\ UNCHANGED <<messages, cancels>>
    /\ UNCHANGED <<apiKey, delivered, checkResult, nChunks>>
    /\ UNCHANGED dialogVars

\* after the await: fail fast without a key, else reset and startConnection
ChatStreamResolved ==
    /\ pc = "getKey"
    /\ IF GetApiKey = ""
         THEN /\ log' = Append(log, OnErrorEv(NoKeyError, "", 0))
              /\ pc' = "done"
              /\ UNCHANGED <<conn, lastContentLength, processedChunks,
                             currentResponseId, startCount, body,
                             prevChunks>>
         ELSE /\ body' = RequestContents(messages)
              /\ lastContentLength' = 0
              /\ processedChunks' = {}
              /\ currentResponseId' = ""
              /\ prevChunks' = processedChunks
              /\ startCount' = startCount + 1
              /\ conn' = "connecting"
              /\ pc' = "awaitStart"
              /\ UNCHANGED log
    /\ UNCHANGED <<messages, cancels>>
    /\ UNCHANGED <<apiKey, delivered, checkResult, nChunks>>
    /\ UNCHANGED dialogVars

\* variant: the handler does not forward to cb.onStart
OnStart_Silent ==
    /\ conn = "connecting"
    /\ conn' = "open"
    /\ UNCHANGED <<messages, body, cancels, prevChunks>>
    /\ UNCHANGED <<apiKey, pc, lastContentLength, processedChunks,
                   currentResponseId, log, delivered, startCount,
                   checkResult, nChunks>>
    /\ UNCHANGED dialogVars

\* handlers.onStart
OnStart ==
    /\ conn = "connecting"
    /\ conn' = "open"
    /\ log' = Append(log, OnStartEv)
    /\ UNCHANGED <<messages, body, cancels, prevChunks>>
    /\ UNCHANGED <<apiKey, pc, lastContentLength, processedChunks,
                   currentResponseId, delivered, startCount, checkResult,
                   nChunks>>
    /\ UNCHANGED dialogVars

\* variant: the fingerprint is recorded before the payload is parsed
OnData_ParseErrorPoisons(c) ==
    /\ conn = "open"
    /\ nChunks < MaxChunks
    /\ nChunks' = nChunks + 1
    /\ delivered' = Append(delivered, c)
    /\ log' = log \o ChunkEvents(processedChunks, currentResponseId, c,
                                 Len(delivered) + 1)
    /\ currentResponseId' = IdAfter(currentResponseId, c)
    /\ lastContentLength' =
          IF IsNewResponse(currentResponseId, c) THEN 0
          ELSE lastContentLength
    /\ processedChunks' =
          SetAfterIdStep(processedChunks, currentResponseId, c)
              \cup {ChunkKey(currentResponseId, c)}
    /\ UNCHANGED <<messages, body, cancels, prevChunks>>
    /\ UNCHANGED <<apiKey, pc, conn, startCount, checkResult>>
    /\ UNCHANGED dialogVars

\* handlers.onData(rawData)
OnData(c) ==
    /\ conn = "open"
    /\ nChunks < MaxChunks
    /\ nChunks' = nChunks + 1
    /\ delivered' = Append(delivered, c)
    /\ log' = log \o ChunkEvents(processedChunks, currentResponseId, c,
                                 Len(delivered) + 1)
    /\ IF ~c.parsed
         THEN UNCHANGED adapterState
         ELSE /\ currentResponseId' = IdAfter(currentResponseId, c)
              /\ lastContentLength' =
                    IF IsNewResponse(currentResponseId, c) THEN 0
                    ELSE lastContentLength
              /\ processedChunks' =
                    SetAfterIdStep(processedChunks, currentResponseId, c)
                        \cup {ChunkKey(currentResponseId, c)}
    /\ UNCHANGED <<messages, body, cancels, prevChunks>>
    /\ UNCHANGED <<apiKey, pc, conn, startCount, checkResult>>
    /\ UNCHANGED dialogVars

\* handlers.onError(error): the transport's terminal failure report
OnError ==
    /\ conn \in {"connecting", "open"}
    /\ conn' = "failed"
    /\ log' = Append(log, OnErrorEv(TransportError, "", 0))
    /\ UNCHANGED <<messages, body, cancels, prevChunks>>
    /\ UNCHANGED <<apiKey, pc, lastContentLength, processedChunks,
                   currentResponseId, delivered, startCount, checkResult,
                   nChunks>>
    /\ UNCHANGED dialogVars

\* the underlying stream ends naturally; no handler is registered for it
StreamEnd ==
    /\ conn = "open"
    /\ conn' = "closed"
    /\ UNCHANGED <<messages, body, cancels, prevChunks>>
    /\ UNCHANGED <<apiKey, pc, lastContentLength, processedChunks,
                   currentResponseId, log, delivered, startCount,
                   checkResult, nChunks>>
    /\ UNCHANGED dialogVars

\* `await this.sseClient.startConnection(...)` resolves
StartConnectionResolved ==
    /\ pc = "awaitStart"
    /\ conn \in {"open", "closed", "failed", "cancelled", "destroyed"}
    /\ pc' = "done"
    /\ UNCHANGED <<messages, body, cancels, prevChunks>>
    /\ UNCHANGED <<apiKey, conn, lastContentLength, processedChunks,
                   currentResponseId, log, delivered, startCount,
                   checkResult, nChunks>>
    /\ UNCHANGED dialogVars

\* ... or rejects, the failure having been reported through the handler
\* or not: catch (error) { cb.onError?.(error) }
StartConnectionRejected ==
    /\ pc = "awaitStart"
    /\ conn \in {"connecting", "failed"}
    /\ conn' = "failed"
    /\ pc' = "done"
    /\ log' = Append(log, OnErrorEv(TransportError, "", 0))
    /\ UNCHANGED <<messages, body, cancels, prevChunks>>
    /\ UNCHANGED <<apiKey, lastContentLength, processedChunks,
                   currentResponseId, delivered, startCount, checkResult,
                   nChunks>>
    /\ UNCHANGED dialogVars

---------------------------------------------------------------------------
(* cancelStream and destroy *)

AbortError == "AbortError"

\* SSEClient.stopConnection: aborts an active connection, else does nothing
StopConnection(c) == IF c \in {"connecting", "open"} THEN "cancelled" ELSE c

\* variant: cancelling reports the cancellation to the caller as an error
CancelStream_ReportsError ==
    /\ Len(cancels) < MaxCancels
    /\ cancels' = Append(cancels, [at |-> Len(log), conn |-> conn, pc |-> pc])
    /\ conn' = StopConnection(conn)
    /\ log' = Append(log, OnErrorEv(AbortError, "", 0))
    /\ UNCHANGED <<apiKey, pc, lastContentLength, processedChunks,
                   currentResponseId, delivered, startCount,
                   checkResult, nChunks, messages, body, prevChunks>>
    /\ UNCHANGED dialogVars

\* cancelStream(): this.sseClient.stopConnection()
CancelStream ==
    /\ Len(cancels) < MaxCancels
    /\ cancels' = Append(cancels, [at |-> Len(log), conn |-> conn, pc |-> pc])
    /\ conn' = StopConnection(conn)
    /\ UNCHANGED <<apiKey, pc, lastContentLength, processedChunks,
                   currentResponseId, log, delivered, startCount,
                   checkResult, nChunks, messages, body, prevChunks>>
    /\ UNCHANGED dialogVars

\* handlers.onError(error) when the transport surfaces the abort as a failure
OnAbort ==
    /\ conn = "cancelled"
    /\ conn' = "failed"
    /\ log' = Append(log, OnErrorEv(AbortError, "", 0))
    /\ UNCHANGED <<apiKey, pc, lastContentLength, processedChunks,
                   currentResponseId, delivered, startCount, checkResult,
                   nChunks, messages, body, cancels, prevChunks>>
    /\ UNCHANGED dialogVars

\* variant: destroy forgets this.processedChunks.clear()
Destroy_KeepsChunks ==
    /\ lastContentLength' = 0
    /\ currentResponseId' = ""
    /\ conn' = "destroyed"
    /\ UNCHANGED <<apiKey, pc, log, delivered, startCount, checkResult,
                   nChunks, messages, body, cancels, prevChunks,
                   processedChunks>>
    /\ UNCHANGED dialogVars

\* destroy(): reset the fields, then this.sseClient.destroy()
Destroy ==
    /\ lastContentLength' = 0
    /\ processedChunks' = {}
    /\ currentResponseId' = ""
    /\ conn' = "destroyed"
    /\ UNCHANGED <<apiKey, pc, log, delivered, startCount, checkResult,
                   nChunks, messages, body, cancels, prevChunks>>
    /\ UNCHANGED dialogVars

---------------------------------------------------------------------------

Next ==
    \/ ChatStreamCall
    \/ ChatStreamResolved
    \/ OnStart
    \/ \E c \in Chunks : OnData(c)
    \/ OnError
    \/ StreamEnd
    \/ StartConnectionResolved
    \/ StartConnectionRejected

Spec == Init /\ [][Next]_vars

\* the same program with a caller that also probes checkConnection
NextCheck ==
    \/ Next
    \/ CheckConnection

SpecCheck == Init /\ [][NextCheck]_vars

\* the program with a caller that cancels and destroys, on a transport that
\* delivers one chunk of each kind of outcome
LifeChunks ==
    {MalformedChunk,
     [parsed |-> TRUE, responseId |-> "r1", hasCandidate |-> TRUE,
      parts |-> <<"Hel">>, finishReason |-> "", blockReason |-> ""],
     [parsed |-> TRUE, responseId |-> "r1", hasCandidate |-> TRUE,
      parts |-> <<"lo">>, finishReason |-> "STOP", blockReason |-> ""],
     [parsed |-> TRUE, responseId |-> "", hasCandidate |-> FALSE,
      parts |-> <<>>, finishReason |-> "", blockReason |-> "SAFETY"]}

NextLife ==
    \/ ChatStreamCall
    \/ ChatStreamResolved
    \/ OnStart
    \/ \E c \in LifeChunks : OnData(c)
    \/ OnError
    \/ StreamEnd
    \/ StartConnectionResolved
    \/ StartConnectionRejected
    \/ CancelStream
    \/ OnAbort
    \/ Destroy

SpecLife == Init /\ [][NextLife]_vars

\* the program called with every history, on a transport that fails
InitBody ==
    /\ apiKey \in Keys
    /\ pc = "idle"
    /\ conn = "none"
    /\ lastContentLength = 0
    /\ processedChunks = {}
    /\ currentResponseId = ""
    /\ log = <<>>
    /\ delivered = <<>>
    /\ startCount = 0
    /\ checkResult = [ok |-> FALSE, reason |-> "NONE"]
    /\ nChunks = 0
    /\ messages \in MessageLists
    /\ body = <<>>
    /\ cancels = <<>>
    /\ prevChunks = {}
    /\ DialogInit

NextBody ==
    \/ ChatStreamCall
    \/ ChatStreamResolved
    \/ OnError
    \/ StartConnectionResolved
    \/ StartConnectionRejected

SpecBody == InitBody /\ [][NextBody]_vars

\* the dialog driven by its user and by the ingestion service
NextDialog ==
    \/ \E id \in AllFiles : Toggle(id)
    \/ LoadAllFiles
    \/ HandleConfirm
    \/ \E p \in Percentages, msg \in ProgressMessages : OnProgress(p, msg)
    \/ AddResolved
    \/ AddRejected

InitDialog == Init /\ apiKey = ""

SpecDialog == InitDialog /\ [][NextDialog]_vars

TypeOK ==
    /\ apiKey \in Keys
    /\ pc \in {"idle", "getKey", "awaitStart", "done"}
    /\ conn \in {"none", "connecting", "open", "closed", "failed",
                 "cancelled", "destroyed"}
    /\ currentResponseId \in ResponseIds
    /\ nChunks \in 0..MaxChunks

---------------------------------------------------------------------------
(* Observations on the caller's sink *)

IsTerminal(e) == e.ev \in {"complete", "error"}

TerminalCount == Cardinality({i \in DOMAIN log : IsTerminal(log[i])})

\* the exchange of the current chatStream call has run to its end
ExchangeOver ==
    /\ pc = "done"
    /\ conn \in {"none", "closed", "failed"}

\* the texts a chunk carries, in part order
NonEmptyParts(c) == SelectSeq(c.parts, LAMBDA t : t # "")

\* the on-token texts the caller received because of delivered chunk k
RECURSIVE TextsOf(_)
TextsOf(evs) ==
    IF evs = <<>> THEN <<>> ELSE <<Head(evs).arg>> \o TextsOf(Tail(evs))

TokenTextsOfChunk(k) ==
    TextsOf(SelectSeq(log, LAMBDA e : e.ev = "token" /\ e.chunk = k))

\* the caller-visible part of the sink: which callback, with which argument
RECURSIVE Visible(_)
Visible(evs) ==
    IF evs = <<>> THEN <<>>
    ELSE <<<<Head(evs).ev, Head(evs).arg>>>> \o Visible(Tail(evs))

---------------------------------------------------------------------------
(* C1: in every exchange the number of terminal callbacks (on-complete     *)
(* plus on-error) delivered to the caller is exactly 1: never more than    *)
(* one, and one once the exchange is over.                                 *)
C1_ExactlyOneTerminal ==
    /\ TerminalCount <= 1
    /\ ExchangeOver => TerminalCount = 1

(* C2: once a terminal callback has fired in an exchange, no on-token      *)
(* callback fires afterwards.                                              *)
C2_NoTokenAfterTerminal ==
    \A i, j \in DOMAIN log :
        (i < j /\ IsTerminal(log[i])) => log[j].ev # "token"

(* C3: a chunk fingerprint accounts for at most one on-token call during   *)
(* an exchange.                                                            *)
C3_OneTokenPerFingerprint ==
    \A i, j \in DOMAIN log :
        (log[i].ev = "token" /\ log[j].ev = "token" /\ log[i].key = log[j].key)
            => i = j

(* C4: only a repeat delivery of an increment already delivered is         *)
(* suppressed: every parsed chunk with non-empty text whose parts differ   *)
(* from those of every earlier chunk has its text emitted verbatim.        *)
C4_OnlyRepeatsSuppressed ==
    \A k \in DOMAIN delivered :
        LET c == delivered[k] IN
        (/\ c.parsed
         /\ c.hasCandidate
         /\ NonEmptyParts(c) # <<>>
         /\ \A j \in 1..(k - 1) : delivered[j].parts # c.parts)
            => TokenTextsOfChunk(k) = NonEmptyParts(c)

---------------------------------------------------------------------------
(* Steps of the onData handler, seen from outside: only onData counts a    *)
(* chunk, and the chunk it handled is the last one of delivered'.          *)

IsDataStep == nChunks' = nChunks + 1

HandledChunk == delivered'[Len(delivered')]

\* the callbacks made during the step
NewEvents == SubSeq(log', Len(log) + 1, Len(log'))

NewTokenTexts == TextsOf(SelectSeq(NewEvents, LAMBDA e : e.ev = "token"))

(* C5: when a parsed chunk carries a response identity and a different    *)
(* identity is currently tracked, the length counter is 0 and the dedup    *)
(* set holds nothing but this chunk's own fingerprint after the chunk, the *)
(* new identity is tracked, and the chunk's texts are emitted.             *)
C5_ResetOnNewIdentity ==
    [][(/\ IsDataStep
        /\ HandledChunk.parsed
        /\ HandledChunk.responseId # ""
        /\ currentResponseId # ""
        /\ HandledChunk.responseId # currentResponseId)
          => /\ currentResponseId' = HandledChunk.responseId
             /\ lastContentLength' = 0
             /\ processedChunks' =
                  {HandledChunk.responseId \o "-"
                       \o ToString(IF HandledChunk.parts = <<>> THEN 0
                                   ELSE Len(HandledChunk.parts[1]))}
             /\ NewTokenTexts = NonEmptyParts(HandledChunk)]_vars

\* "Hel" under r1, then "Hel" under r2: same text length, both emitted
C5_Witness ==
    /\ Len(delivered) = 2
    /\ delivered[1].responseId = "r1" /\ delivered[1].parts = <<"Hel">>
    /\ delivered[2].responseId = "r2" /\ delivered[2].parts = <<"Hel">>
    /\ TokenTextsOfChunk(1) = <<"Hel">>
    /\ TokenTextsOfChunk(2) = <<"Hel">>
    /\ processedChunks = {"r2-3"}

(* C6: in an exchange without a terminal callback so far, every parsed     *)
(* chunk with finishReason STOP makes on-complete fire.                    *)
C6_StopAlwaysCompletes ==
    [][(/\ IsDataStep
        /\ TerminalCount = 0
        /\ HandledChunk.parsed
        /\ HandledChunk.hasCandidate
        /\ HandledChunk.finishReason = "STOP")
          => \E i \in DOMAIN NewEvents : NewEvents[i].ev = "complete"]_vars

(* C7: every parsed chunk with a promptFeedback.blockReason makes on-error *)
(* fire with the content-policy error, which differs from a transport      *)
(* error, and on-complete does not fire in that exchange.                  *)
C7_BlockAlwaysReported ==
    \A k \in DOMAIN delivered :
        LET c == delivered[k] IN
        (c.parsed /\ c.blockReason # "")
            => /\ \E i \in DOMAIN log :
                    /\ log[i].ev = "error"
                    /\ log[i].chunk = k
                    /\ log[i].arg = "Content blocked: " \o c.blockReason
                    /\ log[i].arg # TransportError
               /\ \A i \in DOMAIN log : log[i].ev # "complete"

(* C8: on-token texts reach the caller in the order of the chunks and of   *)
(* the parts within a chunk that produced them, and before the on-complete *)
(* of their chunk; the chunks (r1, "Hel") and (r1, "lo", STOP) give        *)
(* exactly on-token("Hel"), on-token("lo"), on-complete().                 *)
C8_TokensInArrivalOrder ==
    /\ \A i, j \in DOMAIN log :
          (i < j /\ log[i].ev = "token" /\ log[j].ev = "token")
              => log[i].chunk <= log[j].chunk
    /\ \A i, j \in DOMAIN log :
          (log[i].ev = "token" /\ log[j].ev = "complete"
                /\ log[i].chunk = log[j].chunk) => i < j
    /\ \A k \in DOMAIN delivered :
          TokenTextsOfChunk(k) \in {<<>>, NonEmptyParts(delivered[k])}
    /\ (/\ Len(delivered) = 2
        /\ delivered[1] = [parsed |-> TRUE, responseId |-> "r1",
                           hasCandidate |-> TRUE, parts |-> <<"Hel">>,
                           finishReason |-> "", blockReason |-> ""]
        /\ delivered[2] = [parsed |-> TRUE, responseId |-> "r1",
                           hasCandidate |-> TRUE, parts |-> <<"lo">>,
                           finishReason |-> "STOP", blockReason |-> ""]
        /\ conn = "open")
          => Visible(log) = << <<"start", "">>, <<"token", "Hel">>,
                               <<"token", "lo">>, <<"complete", "">> >>

\* a two-part chunk was emitted part by part, then a later chunk
C8_Witness ==
    /\ Len(delivered) = 2
    /\ delivered[1].parts = <<"Hel", "lo">>
    /\ delivered[2].parts = <<"lo">>
    /\ delivered[2].finishReason = "STOP"
    /\ Visible(log) = << <<"start", "">>, <<"token", "Hel">>, <<"token", "lo">>,
                         <<"token", "lo">>, <<"complete", "">> >>

(* C9: a chatStream call without a resolvable credential fires on-error    *)
(* exactly once with NO_KEY and nothing else, and startConnection is       *)
(* never invoked.                                                          *)
C9_NoKeyFailsFast ==
    apiKey = ""
        => /\ startCount = 0
           /\ conn = "none"
           /\ pc = "getKey" => log = <<>>
           /\ pc = "done" => Visible(log) = << <<"error", NoKeyError>> >>

C9_Witness ==
    /\ apiKey = ""
    /\ pc = "done"
    /\ Visible(log) = << <<"error", "NO_KEY">> >>
    /\ startCount = 0

(* C10: checkConnection returns {ok:false, reason:NO_KEY} without a        *)
(* credential and a success value with one; it makes no connection         *)
(* attempt, fires no callback and leaves the dedup / identity state alone. *)
C10_CheckConnectionValue ==
    /\ [](checkResult.reason # "NONE"
            => checkResult = IF apiKey = ""
                                 THEN [ok |-> FALSE, reason |-> "NO_KEY"]
                                 ELSE [ok |-> TRUE, reason |-> ""])
    /\ [][checkResult' # checkResult
            => UNCHANGED <<conn, startCount, log, pc, lastContentLength,
                           processedChunks, currentResponseId>>]_vars

\* a probe without a credential, made while nothing was ever connected
C10_Witness ==
    /\ apiKey = ""
    /\ checkResult = [ok |-> FALSE, reason |-> "NO_KEY"]
    /\ startCount = 0
    /\ conn = "none"

---------------------------------------------------------------------------
(* Observations on cancelStream calls *)

\* the call was made with no exchange under way: nothing was ever started,
\* or chatStream has returned and the connection is over
MadeWhenQuiet(cl) ==
    /\ cl.pc \in {"idle", "done"}
    /\ cl.conn \in {"none", "closed", "failed"}

\* the call was made on an exchange under way, from CONNECTING on
MadeOnActiveExchange(cl) ==
    \/ cl.pc = "getKey"
    \/ cl.conn \in {"connecting", "open"}

ErrorCount(err) ==
    Cardinality({i \in DOMAIN log : log[i].ev = "error" /\ log[i].arg = err})

(* C11: cancelStream called when no connection was ever started, or (also *)
(* twice in a row) after an exchange completed, changes nothing and no     *)
(* callback fires after it.                                                *)
C11_CancelWhenQuietIsSilent ==
    /\ [](\A i \in DOMAIN cancels :
             MadeWhenQuiet(cancels[i]) => Len(log) = cancels[i].at)
    /\ [][(CancelStream /\ pc \in {"idle", "done"}
                        /\ conn \in {"none", "closed", "failed"})
            => UNCHANGED <<log, conn, pc, lastContentLength, processedChunks,
                           currentResponseId>>]_vars

\* two calls in a row after an exchange that completed with on-complete
C11_Witness ==
    /\ Len(cancels) = 2
    /\ cancels[1] = [at |-> Len(log), conn |-> "closed", pc |-> "done"]
    /\ cancels[2] = cancels[1]
    /\ log[Len(log)].ev = "complete"
    /\ conn = "closed"

(* C12: after cancelStream was called on an active exchange, in any state  *)
(* from CONNECTING on, no on-token and no on-complete fires any more.      *)
C12_NoChunkAfterCancel ==
    \A i \in DOMAIN cancels :
        MadeOnActiveExchange(cancels[i])
            => \A j \in DOMAIN log :
                  j > cancels[i].at => log[j].ev \notin {"token", "complete"}

(* C13: a cancellation made through cancelStream is never reported to the  *)
(* caller's on-error, also when the transport surfaces the abort through   *)
(* its on-error handler.                                                   *)
C13_CancelNotAnError == ErrorCount(AbortError) = 0

(* C14: a transport failure makes on-error fire exactly once with the      *)
(* failure unchanged, and startConnection is invoked exactly once per      *)
(* chatStream call that resolved a credential.                             *)
C14_TransportFailureOnce ==
    /\ startCount <= 1
    /\ pc = "awaitStart" => startCount = 1
    /\ (conn = "failed" /\ pc = "done") => ErrorCount(TransportError) = 1

(* C15: every chatStream call with a credential has length counter 0, an   *)
(* empty dedup set and a null identity when it issues startConnection, so  *)
(* the first chunk of an exchange is never dropped as a duplicate of a     *)
(* chunk of the previous exchange.                                         *)
C15_ResetBeforeStart ==
    /\ conn = "connecting"
          => /\ lastContentLength = 0
             /\ processedChunks = {}
             /\ currentResponseId = ""
    /\ (Len(delivered) >= 1 /\ delivered[1].parsed)
          => TokenTextsOfChunk(1) = NonEmptyParts(delivered[1])

\* "Hel" without identity was seen in the previous exchange and is emitted
\* again as the first chunk of this one
C15_Witness ==
    /\ prevChunks = {"null-3"}
    /\ Len(delivered) = 1
    /\ delivered[1].parsed
    /\ delivered[1].responseId = ""
    /\ delivered[1].parts = <<"Hel">>
    /\ TokenTextsOfChunk(1) = <<"Hel">>

---------------------------------------------------------------------------
(* C16: destroy, in any state and any number of times, leaves the adapter  *)
(* with length counter 0, an empty dedup set and a null identity, releases *)
(* the transport and fires no callback.                                    *)
C16_DestroyResets ==
    /\ [](conn = "destroyed"
            => /\ lastContentLength = 0
               /\ processedChunks = {}
               /\ currentResponseId = "")
    /\ [][Destroy => /\ log' = log
                     /\ conn' = "destroyed"
                     /\ lastContentLength' = 0
                     /\ processedChunks' = {}
                     /\ currentResponseId' = ""]_vars

\* destroyed in the middle of a stream that had filled the dedup set
C16_Witness ==
    /\ conn = "destroyed"
    /\ Len(delivered) = 2
    /\ delivered[1].parsed /\ delivered[2].parsed
    /\ TokenTextsOfChunk(1) = <<"Hel">>
    /\ processedChunks = {}
    /\ currentResponseId = ""

(* C17: in an exchange where several raw chunks fail to parse, on-error    *)
(* fires at most once for parse failure.                                   *)
C17_ParseFailureOnce == ErrorCount(ParseError) <= 1

\* what the well-formed chunks alone produce, from the state of a fresh
\* exchange
RECURSIVE Replay(_, _, _, _)
Replay(chunks, set, cur, i) ==
    IF chunks = <<>> THEN <<>>
    ELSE LET c == Head(chunks) IN
         ChunkEvents(set, cur, c, i)
         \o Replay(Tail(chunks),
                   SetAfterIdStep(set, cur, c) \cup {ChunkKey(cur, c)},
                   IdAfter(cur, c), i + 1)

(* C18: a raw chunk that fails to parse leaves the dedup set, the length   *)
(* counter and the tracked identity unchanged and the stream open, and the *)
(* well-formed chunks of the exchange produce the callbacks they produce   *)
(* when the malformed chunks do not arrive.                                *)
C18_MalformedIsLocal ==
    /\ [][(IsDataStep /\ ~HandledChunk.parsed)
            => /\ UNCHANGED <<lastContentLength, processedChunks,
                              currentResponseId>>
               /\ conn' = "open"]_vars
    /\ [](Visible(SelectSeq(log, LAMBDA e :
                     e.chunk > 0 /\ ~(e.ev = "error" /\ e.arg = ParseError)))
            = Visible(Replay(SelectSeq(delivered, LAMBDA c : c.parsed),
                             {}, "", 1)))

\* a malformed chunk, then a text-less STOP chunk that still completes
C18_Witness ==
    /\ Len(delivered) = 2
    /\ ~delivered[1].parsed
    /\ delivered[2].parsed
    /\ delivered[2].parts = <<>>
    /\ delivered[2].finishReason = "STOP"
    /\ Visible(log) = << <<"start", "">>, <<"error", ParseError>>,
                         <<"complete", "">> >>

(* C19: the request body has one contents entry per message, in order;    *)
(* the role is 'user' exactly for a user message and 'model' otherwise,    *)
(* and the single part carries the content unchanged.                      *)
C19_BodyMapping ==
    startCount >= 1
        => /\ Len(body) = Len(messages)
           /\ \A i \in DOMAIN messages :
                 /\ body[i].role = "user" <=> messages[i].role = "user"
                 /\ messages[i].role # "user" => body[i].role = "model"
                 /\ body[i].parts = <<[text |-> messages[i].content]>>

C19_Witness ==
    /\ startCount = 1
    /\ Len(messages) = 3
    /\ messages[1].role = "user"
    /\ messages[2].role = "assistant"
    /\ messages[3].role = "system"
    /\ Len(body) = 3
    /\ body[1].role = "user" /\ body[2].role = "model" /\ body[3].role = "model"
    /\ body[3].parts = <<[text |-> messages[3].content]>>

(* C20: on-start fires at most once per exchange and only after            *)
(* startConnection was issued; it precedes every on-token and on-complete, *)
(* so no on-token is delivered in an exchange whose on-start has not fired.*)
C20_StartFirst ==
    /\ Cardinality({i \in DOMAIN log : log[i].ev = "start"}) <= 1
    /\ (\E i \in DOMAIN log : log[i].ev = "start") => startCount >= 1
    /\ \A j \in DOMAIN log :
          log[j].ev \in {"token", "complete"}
              => \E i \in 1..(j - 1) : log[i].ev = "start"

C20_Witness ==
    /\ startCount = 1
    /\ Len(log) = 4
    /\ log[1].ev = "start"
    /\ log[2].ev = "token"
    /\ log[3].ev = "token"
    /\ log[4].ev = "complete"

---------------------------------------------------------------------------
(* Observations on handleConfirm *)

\* the ids of ids that the loop hands to addDocumentToKnowledgeBase: listed
\* and not a chat attachment
DocumentsOf(ids, fs) ==
    SelectSeq(ids, LAMBDA x : x \in fs /\ FileType(x) = "document")

\* how many of selectedIds the loop has taken up
Reached == IF dpc = "awaitAdd" \/ addFailed THEN idx + 1 ELSE idx

\* a step of handleConfirm
HandlerStep == HandleConfirm \/ AddResolved \/ AddRejected

\* a step in which a handleConfirm started on a non-empty selection returns
RunEnd ==
    \/ HandleConfirm /\ selected # <<>> /\ dpc' = "idle"
    \/ AddResolved /\ dpc' = "idle"
    \/ AddRejected

(* C21: handleConfirm hands the selected documents to                      *)
(* addDocumentToKnowledgeBase one at a time, in selection order; a run     *)
(* started on a non-empty selection returns, on success and on failure     *)
(* alike, with adding = false, progress = 0, an empty progress message and *)
(* an empty selection; progress stays at or below 99 while a document is   *)
(* still being processed; onSuccess and onOpenChange(false) are called     *)
(* only in a run in which no addDocumentToKnowledgeBase call failed, and a *)
(* failed call ends the run without a further call.                        *)
C21_HandleConfirm ==
    /\ [][HandlerStep
            => /\ calls' = DocumentsOf(SubSeq(selectedIds', 1, Reached'),
                                       files')
               /\ Len(calls') <= (IF dpc = "idle" THEN 0 ELSE Len(calls)) + 1
               /\ dpc' = "awaitAdd" => calls'[Len(calls')] = selectedIds'[idx' + 1]
         ]_vars
    /\ [][RunEnd => /\ adding' = FALSE
                    /\ progress' = 0
                    /\ progressMessage' = ""
                    /\ selected' = <<>>]_vars
    /\ [](dpc = "awaitAdd" => progress <= 99)
    /\ [](onSuccessCalls + closeCalls > 0 => ~addFailed)
    /\ [](addFailed => dpc = "idle")
    /\ [][AddRejected => /\ calls' = calls
                         /\ dpc' = "idle"
                         /\ onSuccessCalls' = 0
                         /\ closeCalls' = 0]_vars

\* two documents selected, the first one's call rejects: the second is never
\* handed over and the dialog state is reset
C21_Witness ==
    /\ selectedIds = <<"d1", "d2">>
    /\ calls = <<"d1">>
    /\ addFailed
    /\ toasts = <<"error">>
    /\ onSuccessCalls = 0
    /\ closeCalls = 0
    /\ dpc = "idle"
    /\ ~adding
    /\ progress = 0
    /\ progressMessage = ""
    /\ selected = <<>>

=============================================================================
